---------------------------- MODULE Spec2Model ----------------------------
(***************************************************************************)
(* World Time Display (src/main.rs): five city cards whose HH:MM strings   *)
(* are derived from Austin's time (UTC-6) plus a whole-hour offset, and a  *)
(* render callback that recomputes them when 60 seconds have elapsed.      *)
(*                                                                         *)
(* Time is counted in units of 1/UnitsPerSec second.  utc is the wall      *)
(* clock read by Utc::now(), mono the monotonic clock read by              *)
(* Instant::now().  A display string is the sequence of its characters.    *)
(***************************************************************************)
EXTENDS Integers, Sequences, FiniteSets, TLC

VARIABLES
    utc,            \* wall clock (Utc::now), units since a midnight UTC
    mono,           \* monotonic clock (Instant::now), units since start
    config,         \* the (name, timezone_id, is_home, home_offset) list
    cities,         \* WorldTimeApp.cities: sequence of WorldTime records
    last_update,    \* WorldTimeApp.last_update (an Instant)
    now,            \* the local `now` of WorldTimeApp::render
    i,              \* cities already visited by the for loop of render
    redraw_needed,  \* whether this render call asked for a redraw
    drawn,          \* the times handed to the presentation by city_grid
    pc              \* position of the single UI thread

vars == <<utc, mono, config, cities, last_update, now, i, redraw_needed,
          drawn, pc>>

----------------------------------------------------------------------------
(* Bounds of the model *)

UnitsPerSec == 2

MaxSecs == 122

(* Program constants *)

RefreshSecs == 60

AustinUtcHours == -6

----------------------------------------------------------------------------
(* Time arithmetic *)

UnitsPerMin == 60 * UnitsPerSec

UnitsPerHour == 60 * UnitsPerMin

UnitsPerDay == 24 * UnitsPerHour

MaxTime == MaxSecs * UnitsPerSec

\* chrono::Duration::hours
hours(h) == h * UnitsPerHour

\* Duration::as_secs: whole seconds, truncated
as_secs(d) == d \div UnitsPerSec

\* Instant::duration_since: saturates at zero
duration_since(later, earlier) == IF later >= earlier THEN later - earlier ELSE 0

Digits == <<"0", "1", "2", "3", "4", "5", "6", "7", "8", "9">>

\* a two digit, zero padded decimal number
Pad2(n) == <<Digits[(n \div 10) + 1], Digits[(n % 10) + 1]>>

\* DateTime::format("%H:%M") of an instant t on the UTC scale
FormatHM(t) ==
    Pad2((t \div UnitsPerHour) % 24) \o <<":">> \o Pad2((t \div UnitsPerMin) % 60)

----------------------------------------------------------------------------
(* WorldTime *)

\* get_austin_time without the offset of Austin
get_austin_time_utc(clock) == clock

\* WorldTime::get_austin_time, given the reading of Utc::now()
get_austin_time(clock) == clock + hours(AustinUtcHours)

\* WorldTime::calculate_time_from_austin, given the reading of Utc::now()
calculate_time_from_austin(clock, austin_offset) ==
    FormatHM(get_austin_time(clock) + hours(austin_offset))

\* WorldTime::new, given the reading of Utc::now()
new(clock, l) ==
    [name        |-> l.name,
     time        |-> calculate_time_from_austin(clock, l.home_offset),
     diff_hours  |-> l.home_offset,
     is_home     |-> l.is_home,
     timezone_id |-> l.timezone_id]

\* update_time that also moves the offset on
update_time_accum(city, clock) ==
    [city EXCEPT !.time = calculate_time_from_austin(clock, city.diff_hours),
                 !.diff_hours = @ + 1]

\* update_time that also clears the offset
update_time_zeroed(city, clock) ==
    [city EXCEPT !.time = calculate_time_from_austin(clock, city.diff_hours),
                 !.diff_hours = 0]

\* WorldTime::update_time, given the reading of Utc::now()
update_time(city, clock) ==
    [city EXCEPT !.time = calculate_time_from_austin(clock, city.diff_hours)]

\* the five locations built by main
MainLocations ==
    << [name |-> "Austin",    timezone_id |-> "America/Chicago",
        is_home |-> TRUE,  home_offset |-> 0],
       [name |-> "NYC",       timezone_id |-> "America/New_York",
        is_home |-> FALSE, home_offset |-> 1],
       [name |-> "London",    timezone_id |-> "Europe/London",
        is_home |-> FALSE, home_offset |-> 6],
       [name |-> "Berlin",    timezone_id |-> "Europe/Berlin",
        is_home |-> FALSE, home_offset |-> 7],
       [name |-> "Bucharest", timezone_id |-> "Europe/Bucharest",
        is_home |-> FALSE, home_offset |-> 8] >>

----------------------------------------------------------------------------
(* The instants at which the program is started *)

HMS(h, m, s) == UnitsPerDay + h * UnitsPerHour + m * UnitsPerMin + s * UnitsPerSec

StartTimes ==
    { HMS(20, 0, 0),                \* Austin 14:00:00
      HMS(19, 59, 59),              \* Austin 13:59:59
      HMS(5, 59, 59) + 1,           \* Austin 23:59:59 and a fraction
      HMS(23, 0, 59) + 1 }          \* Austin 17:00:59 and a fraction

\* how far the clocks move between two render calls
Steps == {UnitsPerSec + 1, 59 * UnitsPerSec + 1, RefreshSecs * UnitsPerSec}

\* how far the clocks move between two steps of startup or of a render call
CallSteps == {UnitsPerSec + 1}

\* the longest that startup or a render call takes
MaxCall == 2 * (UnitsPerSec + 1)

\* the same when the host calls render at least once per second
RegularSteps == {1, UnitsPerSec}

----------------------------------------------------------------------------
(* The program *)

Init ==
    /\ utc \in StartTimes
    /\ mono = 0
    /\ config = MainLocations
    /\ cities = <<>>
    /\ last_update = 0
    /\ now = 0
    /\ i = 0
    /\ redraw_needed = FALSE
    /\ drawn = <<>>
    /\ pc = "new"

\* main: cx.new(|_| WorldTime::new(..)) for the next location
NewCity ==
    /\ pc = "new"
    /\ Len(cities) < Len(config)
    /\ cities' = Append(cities, new(utc, config[Len(cities) + 1]))
    /\ UNCHANGED <<utc, mono, config, last_update, now, i, redraw_needed,
                   drawn, pc>>

\* main: WorldTimeApp { cities, last_update: Instant::now() }
OpenApp ==
    /\ pc = "new"
    /\ Len(cities) = Len(config)
    /\ last_update' = mono
    /\ pc' = "idle"
    /\ UNCHANGED <<utc, mono, config, cities, now, i, redraw_needed, drawn>>

\* the test with > in place of >=
Due_strict(n, last) == as_secs(duration_since(n, last)) > RefreshSecs

\* the test of WorldTimeApp::render
Due(n, last) == as_secs(duration_since(n, last)) >= RefreshSecs

\* WorldTimeApp::render: read the Instant and test the elapsed time
RenderBegin ==
    /\ pc = "idle"
    /\ now' = mono
    /\ i' = 0
    /\ redraw_needed' = FALSE
    /\ pc' = IF Due(mono, last_update) THEN "loop" ELSE "grid"
    /\ UNCHANGED <<utc, mono, config, cities, last_update, drawn>>

\* WorldTimeApp::render: one iteration of the for loop
UpdateCity ==
    /\ pc = "loop"
    /\ i < Len(cities)
    /\ cities' = [cities EXCEPT ![i + 1] = update_time(@, utc)]
    /\ i' = i + 1
    /\ UNCHANGED <<utc, mono, config, last_update, now, redraw_needed,
                   drawn, pc>>

\* the end of the loop without the assignment to last_update
SetLastUpdate_forgotten ==
    /\ pc = "loop"
    /\ i = Len(cities)
    /\ pc' = "grid"
    /\ UNCHANGED <<utc, mono, config, cities, last_update, now, i,
                   redraw_needed, drawn>>

\* the loop left after its first iteration
SetLastUpdate_early ==
    /\ pc = "loop"
    /\ i >= 1
    /\ last_update' = now
    /\ pc' = "grid"
    /\ UNCHANGED <<utc, mono, config, cities, now, i, redraw_needed, drawn>>

\* WorldTimeApp::render: the loop is over, self.last_update = now
SetLastUpdate ==
    /\ pc = "loop"
    /\ i = Len(cities)
    /\ last_update' = now
    /\ pc' = "grid"
    /\ UNCHANGED <<utc, mono, config, cities, now, i, redraw_needed, drawn>>

\* city_grid and WorldTime::render: the cards read every city's time
Draw ==
    /\ pc = "grid"
    /\ drawn' = [k \in 1..Len(cities) |-> cities[k].time]
    /\ pc' = "idle"
    /\ UNCHANGED <<utc, mono, config, cities, last_update, now, i,
                   redraw_needed>>

\* both clocks move on by d units
Tick(d) ==
    /\ mono + d <= MaxTime
    /\ mono' = mono + d
    /\ utc' = utc + d
    /\ UNCHANGED <<config, cities, last_update, now, i, redraw_needed,
                   drawn, pc>>

\* time passes: between render calls, and inside startup or a render call
Advance ==
    \/ /\ pc = "idle"
       /\ \E d \in Steps : Tick(d)
    \/ /\ pc \in {"new", "loop", "grid"}
       /\ \E d \in CallSteps :
             /\ (mono + d) - now <= MaxCall
             /\ Tick(d)

Next ==
    \/ NewCity
    \/ OpenApp
    \/ RenderBegin
    \/ UpdateCity
    \/ SetLastUpdate
    \/ Draw
    \/ Advance

Spec == Init /\ [][Next]_vars

----------------------------------------------------------------------------
(* The program driven by a host that starts it within a second and calls   *)
(* render at least once per second: no more than one second passes from    *)
(* the start of the program or of a render call to the next render call.   *)

AdvanceRegular ==
    /\ pc \in {"new", "idle", "loop", "grid"}
    /\ \E d \in RegularSteps :
          /\ (mono + d) - now <= UnitsPerSec
          /\ Tick(d)

NextRegular ==
    \/ NewCity
    \/ OpenApp
    \/ RenderBegin
    \/ UpdateCity
    \/ SetLastUpdate
    \/ Draw
    \/ AdvanceRegular

SpecRegular == Init /\ [][NextRegular]_vars


----------------------------------------------------------------------------
(* WorldTime::new and the WorldTimeApp literal applied to other location   *)
(* lists than the one of main: neither checks the is_home flags.           *)

Loc(n, tz, home, off) ==
    [name |-> n, timezone_id |-> tz, is_home |-> home, home_offset |-> off]

Configs ==
    { MainLocations,
      << Loc("Austin", "America/Chicago", TRUE, 0),
         Loc("London", "Europe/London", TRUE, 6) >>,
      << Loc("Austin", "America/Chicago", FALSE, 0),
         Loc("London", "Europe/London", FALSE, 6) >>,
      << Loc("Austin", "America/Chicago", TRUE, 0),
         Loc("London", "Europe/London", FALSE, 6) >> }

InitConfig ==
    /\ utc \in StartTimes
    /\ mono = 0
    /\ config \in Configs
    /\ cities = <<>>
    /\ last_update = 0
    /\ now = 0
    /\ i = 0
    /\ redraw_needed = FALSE
    /\ drawn = <<>>
    /\ pc = "new"

SpecConfig == InitConfig /\ [][Next]_vars

----------------------------------------------------------------------------
(* The clock model on its own, under a clock that stands still until it is *)
(* set: construction of the five cities and whole recompute passes.        *)

ClockReadings ==
    { HMS(h, m, s) + f : h \in 0..23, m \in {0, 59}, s \in {0, 59},
                         f \in {0, UnitsPerSec - 1} }

InitClock ==
    /\ utc \in ClockReadings
    /\ mono = 0
    /\ config = MainLocations
    /\ cities = [k \in 1..Len(MainLocations) |-> new(utc, MainLocations[k])]
    /\ last_update = 0
    /\ now = 0
    /\ i = 0
    /\ redraw_needed = FALSE
    /\ drawn = <<>>
    /\ pc = "constructed"

\* the clock is set to another reading
SetClock ==
    /\ \E t \in ClockReadings : t # utc /\ utc' = t
    /\ pc' = "clock"
    /\ UNCHANGED <<mono, config, cities, last_update, now, i, redraw_needed,
                   drawn>>

\* main: the five WorldTime::new calls at the present reading
ConstructAll ==
    /\ cities' = [k \in 1..Len(config) |-> new(utc, config[k])]
    /\ pc' = "constructed"
    /\ UNCHANGED <<utc, mono, config, last_update, now, i, redraw_needed,
                   drawn>>

\* the for loop of WorldTimeApp::render at the present reading
RecomputeAll ==
    /\ cities' = [k \in 1..Len(cities) |-> update_time(cities[k], utc)]
    /\ pc' = IF pc \in {"recomputed", "recomputed_again"}
                THEN "recomputed_again" ELSE "recomputed"
    /\ UNCHANGED <<utc, mono, config, last_update, now, i, redraw_needed,
                   drawn>>

NextClock ==
    \/ SetClock
    \/ ConstructAll
    \/ RecomputeAll

SpecClock == InitClock /\ [][NextClock]_vars

----------------------------------------------------------------------------
(* Reading a display string back *)

DigitVal(c) == CHOOSE n \in 0..9 : Digits[n + 1] = c

IsDigit(c) == \E n \in 0..9 : Digits[n + 1] = c

\* s is two digits, a colon, two digits
WellFormed(s) ==
    /\ Len(s) = 5
    /\ IsDigit(s[1]) /\ IsDigit(s[2]) /\ s[3] = ":" /\ IsDigit(s[4]) /\ IsDigit(s[5])

HourOf(s) == 10 * DigitVal(s[1]) + DigitVal(s[2])

MinuteOf(s) == 10 * DigitVal(s[4]) + DigitVal(s[5])

\* the civil hour and minute in Austin (UTC minus 6 hours) at reading t
RefHour(t) == ((t \div UnitsPerHour) - 6) % 24

RefMinute(t) == (t \div UnitsPerMin) % 60

\* s shows civil time h:m
Shows(s, h, m) == WellFormed(s) /\ HourOf(s) = h /\ MinuteOf(s) = m

Homes == {k \in 1..Len(cities) : cities[k].is_home}

Times == [k \in 1..Len(cities) |-> cities[k].time]

\* render has finished its if statement, and the loop ran over every city
PassDone == pc = "grid" /\ Len(cities) > 0 /\ i = Len(cities)

\* render has finished its if statement without entering the loop
PassSkipped == pc = "grid" /\ i = 0

\* the wall clock when this render call read its Instant
UtcAtNow == utc - (mono - now)

----------------------------------------------------------------------------
(* C1: after a recompute pass every non-reference location shows the       *)
(* reference location's displayed time advanced by its diff_hours, modulo  *)
(* 24 hours, with the same minutes, whatever the clock does meanwhile.     *)
C1_OffsetFromReference ==
    PassDone =>
        \A h \in Homes : \A k \in 1..Len(cities) :
            ~cities[k].is_home =>
                Shows(cities[k].time,
                      (HourOf(cities[h].time) + cities[k].diff_hours) % 24,
                      MinuteOf(cities[h].time))

----------------------------------------------------------------------------
(* C2: a render call made less than 60 seconds after last_update runs no   *)
(* recompute and leaves last_update and every city unchanged; a call made  *)
(* 60 seconds or more after it visits every city once, in order, changing  *)
(* that city only, and then sets last_update to the Instant it read.       *)
C2_Throttle ==
    [][ /\ (pc = "idle" /\ pc' # "idle") =>
              /\ now' = mono
              /\ i' = 0
              /\ cities' = cities
              /\ last_update' = last_update
              /\ pc' = IF mono - last_update < 60 * UnitsPerSec
                          THEN "grid" ELSE "loop"
        /\ (pc = "loop" /\ pc' = "loop" /\ <<cities, i>>' # <<cities, i>>) =>
              /\ i < Len(cities)
              /\ i' = i + 1
              /\ now' = now
              /\ last_update' = last_update
              /\ Len(cities') = Len(cities)
              /\ \A k \in 1..Len(cities) : k # i' => cities'[k] = cities[k]
        /\ (pc = "loop" /\ pc' # "loop") =>
              /\ i = Len(cities)
              /\ i' = i
              /\ cities' = cities
              /\ last_update' = now
              /\ pc' = "grid"
        /\ pc = "grid" =>
              /\ pc' \in {"grid", "idle"}
              /\ i' = i
              /\ cities' = cities
              /\ last_update' = last_update
        /\ (pc = "idle" /\ pc' = "idle") =>
              /\ cities' = cities
              /\ last_update' = last_update
      ]_vars

\* a call made 60 seconds or more after last_update has run the whole loop
C2_Witness ==
    /\ PassDone
    /\ last_update = now
    /\ now >= 60 * UnitsPerSec
    /\ drawn # <<>>

(* C3: every render call signals the presentation layer: redraw needed     *)
(* exactly when the call ran a recompute pass, no redraw needed when less  *)
(* than 60 seconds had elapsed.                                            *)
C3_RedrawSignal ==
    /\ PassDone => redraw_needed
    /\ PassSkipped => ~redraw_needed

(* C4: all cities of one recompute pass are computed from one reading of   *)
(* the clock, taken during that pass.                                      *)
C4_SingleNow ==
    PassDone =>
        \E t \in UtcAtNow..utc :
            \A k \in 1..Len(cities) :
                cities[k].time = calculate_time_from_austin(t, cities[k].diff_hours)

(* C5: whatever the clock reads, WorldTime::new and update_time give a     *)
(* location of offset d the zero padded HH:MM whose hour is Austin's civil *)
(* hour (UTC minus 6) plus d modulo 24 and whose minute is Austin's; at    *)
(* Austin 14:00 London (offset 6) shows "20:00".                           *)
C5_DisplayTime ==
    pc \in {"constructed", "recomputed", "recomputed_again"} =>
        \A k \in 1..Len(cities) :
            /\ Shows(cities[k].time,
                     (RefHour(utc) + cities[k].diff_hours) % 24,
                     RefMinute(utc))
            /\ ( /\ RefHour(utc) = 14 /\ RefMinute(utc) = 0
                 /\ cities[k].name = "London" /\ cities[k].diff_hours = 6 )
               => cities[k].time = <<"2", "0", ":", "0", "0">>

\* a pass has run at Austin 14:00 and London shows 20:00
C5_Witness ==
    /\ pc = "recomputed"
    /\ RefHour(utc) = 14 /\ RefMinute(utc) = 0
    /\ cities[3].name = "London"
    /\ cities[3].time = <<"2", "0", ":", "0", "0">>

(* C6: with two locations marked is_home, or with none, construction ends  *)
(* in a configuration error: the program never runs (render is never       *)
(* reached) unless exactly one location is the reference.                  *)
C6_ConfigurationError ==
    pc \in {"idle", "loop", "grid"} => Cardinality(Homes) = 1

(* C7: a recompute pass run again while the clock reports the same instant *)
(* leaves every display_time as the pass before left it.                   *)
C7_Idempotent ==
    [][ pc' = "recomputed_again" => Times' = Times ]_vars

\* a second pass has run at one reading of the clock
C7_Witness ==
    /\ pc = "recomputed_again"
    /\ \A k \in 1..Len(cities) :
          cities[k].time = calculate_time_from_austin(utc, cities[k].diff_hours)

(* C8: with render called at least once per second, every call shows for   *)
(* each location the HH:MM an unthrottled call would compute at that call. *)
C8_SameAsUnthrottled ==
    pc = "grid" =>
        \A k \in 1..Len(cities) :
            \E t \in UtcAtNow..utc :
                cities[k].time = calculate_time_from_austin(t, cities[k].diff_hours)

(* C8 as amended: with the program started within a second and render      *)
(* called at least once per second, every call is made less than 61        *)
(* seconds after last_update and shows for each location the HH:MM of a    *)
(* clock reading no older than one second before last_update.              *)
C8_BoundedLag ==
    pc = "grid" =>
        /\ mono - last_update < 61 * UnitsPerSec
        /\ \A k \in 1..Len(cities) :
              \E t \in (utc - (mono - last_update) - UnitsPerSec)..utc :
                  cities[k].time = calculate_time_from_austin(t, cities[k].diff_hours)

\* a call shows a minute that the clock has left: the display lags
C8_Witness ==
    /\ pc = "grid"
    /\ i = 0
    /\ mono - last_update >= 60 * UnitsPerSec
    /\ \A k \in 1..Len(cities) :
          cities[k].time # calculate_time_from_austin(utc, cities[k].diff_hours)

(* C9: once constructed, the list of locations keeps its length and order  *)
(* and every location its name, diff_hours, is_home and timezone_id; only  *)
(* the times and last_update change, and just one location is the home.    *)
C9_LocationsImmutable ==
    [][ pc # "new" =>
          /\ Len(cities') = Len(cities)
          /\ \A k \in 1..Len(cities) :
                /\ cities'[k].name = cities[k].name
                /\ cities'[k].diff_hours = cities[k].diff_hours
                /\ cities'[k].is_home = cities[k].is_home
                /\ cities'[k].timezone_id = cities[k].timezone_id
          /\ Cardinality(Homes') = 1
          /\ config' = config
      ]_vars

\* a pass has changed every city's time since the last draw
C9_Witness ==
    /\ PassDone
    /\ Len(drawn) = Len(cities)
    /\ \A k \in 1..Len(cities) : cities[k].time # drawn[k]

(* C10: when the cards are read for drawing, this render call has either   *)
(* recomputed every city or none, and the cards get the times as they are  *)
(* at that moment.                                                         *)
C10_NoPartialDraw ==
    [][ drawn' # drawn =>
          /\ pc = "grid"
          /\ i = 0 \/ i = Len(cities)
          /\ drawn' = Times
          /\ cities' = cities
      ]_vars

\* the cards have been drawn after a pass whose readings straddle a minute
C10_Witness ==
    /\ pc = "idle"
    /\ i = Len(cities)
    /\ drawn = Times
    /\ \E k \in 1..Len(cities) : MinuteOf(drawn[k]) # MinuteOf(drawn[1])

=============================================================================
